---- MODULE Spec2Model ----
(***************************************************************************)
(* Model of asteroid/filterbanks/param_sinc.py: SincParamFB, the sinc-     *)
(* based parameterized filterbank.                                         *)
(*                                                                         *)
(* Numbers.  Frequencies (Hz) are integers.  Real-valued quantities are    *)
(* fixed-point integers: sines and cosines carry a factor 1000, the window *)
(* a factor 100, kernel samples both (FixOne), mel values a factor 1000.   *)
(* A kernel sample of the returned bank is a float record: finite, nan or  *)
(* inf, because the normalisation divides by a value that may be zero.     *)
(* Angles are integer counts of 1/(4*sample_rate) of a turn, so that the   *)
(* product f * n_ = 2*pi*f*t/sample_rate is the integer 4*f*t.             *)
(***************************************************************************)
EXTENDS Integers, Sequences, FiniteSets, TLC

VARIABLES
    args,     \* the arguments __init__ was called with
    self,     \* the fields of the SincParamFB instance
    op,       \* the operation that ran last
    frame,    \* locals of the last filters call: low, high, the make_filters tags
    ret,      \* what the last call returned (or raised)
    prev      \* parameters and result of one earlier filters call

vars == <<args, self, op, frame, ret, prev>>

---------------------------------------------------------------------------
(* Bounds and input sets *)

MaxKernelSize == 4     \* kernel_size passed to __init__ ranges over 1..MaxKernelSize
MaxRaw == 1            \* parameter updates write 45 * k Hz, k in -1..MaxRaw

NFilters == {2, 4}     \* n_filters: one or two (cos, sin) pairs
NFiltersDet == {2}     \* n_filters where two filters calls are compared
KernelSizes == 1..MaxKernelSize
Strides == {1}
SampleRates == {80, 100}
MinLowHzs == {5, 45}
MinBandHzs == {5}
RawValues == {45 * k : k \in -1..MaxRaw}
FilterTypes == {"cos", "sin", "tan"}

---------------------------------------------------------------------------
(* Integer arithmetic standing for the float arithmetic of numpy and torch *)

Abs(x) == IF x < 0 THEN -x ELSE x

Sign(x) == IF x < 0 THEN -1 ELSE IF x > 0 THEN 1 ELSE 0

\* Division rounding toward zero: like IEEE division it commutes with negation.
TDiv(a, b) == Sign(a) * Sign(b) * (Abs(a) \div Abs(b))

\* Division rounding to nearest, ties away from zero.
RDiv(a, b) == Sign(a) * Sign(b) * ((2 * Abs(a) + Abs(b)) \div (2 * Abs(b)))

Min(a, b) == IF a < b THEN a ELSE b

Max(a, b) == IF a > b THEN a ELSE b

\* 1000 * sin(2*pi*a/full), by Bhaskara's rational approximation of the sine.
SinFx(a, full) ==
    LET half == full \div 2
        r    == a % full
        B(q) == (16000 * q * (half - q)) \div (5 * half * half - 4 * q * (half - q))
    IN  IF r <= half THEN B(r) ELSE -B(r - half)

\* 1000 * cos(2*pi*a/full); full is a multiple of 4.
CosFx(a, full) == SinFx(a + full \div 4, full)

\* The value 1.0 of a kernel sample.
FixOne == 1000 * 100

\* Floats of the returned tensors.
Fin(v) == [c |-> "fin", v |-> v]
NaN == [c |-> "nan", v |-> 0]
Inf(s) == [c |-> "inf", v |-> s]

\* x / d in floating point, x and d finite.
FDiv(x, d) ==
    IF d # 0 THEN Fin(TDiv(x, d))
    ELSE IF x = 0 THEN NaN ELSE Inf(Sign(x))

\* a == b in floating point: nan equals nothing.
FEq(a, b) == a.c # "nan" /\ b.c # "nan" /\ a = b

FNeg(a) == [a EXCEPT !.v = -a.v]

---------------------------------------------------------------------------
(* Mel scale *)

\* 1000 * to_mel(hz) = 1000 * 2595 * log10(1 + hz/700), through
\* ln(1 + hz/700) = 2 * atanh(z) with z = hz / (1400 + hz), two terms.
to_mel(hz) ==
    LET d  == 1400 + hz
        t1 == TDiv(2254021 * hz, d)
        c1 == TDiv(751340 * hz, d)
        c2 == TDiv(c1 * hz, d)
        c3 == TDiv(c2 * hz, d)
    IN  t1 + c3

\* to_hz(mel) = 700 * (10^(mel/2595) - 1) for mel given times 1000, through
\* exp(x) - 1 = x + x^2/2 + x^3/6 with x = mel / 1127.01, rounded to a whole Hz.
to_hz(mel) ==
    LET x  == TDiv(mel * 100, 1127)
        t2 == TDiv(x * x, 200000)
        t3 == TDiv(t2 * x, 300000)
    IN  RDiv(700 * (x + t2 + t3), 100000)

\* np.linspace(start, stop, num)
linspace(start, stop, num) ==
    [i \in 1..num |->
        IF num = 1 THEN start
        ELSE IF i = num THEN stop
        ELSE start + TDiv((i - 1) * (stop - start), num - 1)]

---------------------------------------------------------------------------
(* Tensors.  A 2-D tensor is a sequence of rows; a returned value is a      *)
(* record with its shape, or the exception raised instead.                 *)

Tensor(shape, data) == [kind |-> "tensor", shape |-> shape, data |-> data]
Raised(exc) == [kind |-> exc, shape |-> <<>>, data |-> <<>>]
NoRet == [kind |-> "none", shape |-> <<>>, data |-> <<>>]

\* torch.flip(m, dims=[1]) of one row
Flip(row) == [k \in 1..Len(row) |-> row[Len(row) + 1 - k]]

RECURSIVE Flatten(_)
Flatten(m) == IF m = <<>> THEN <<>> ELSE Head(m) \o Flatten(Tail(m))

\* m.view(a, 1, b): the same elements in row-major order, or a RuntimeError
\* when the number of elements differs.
View(m, a, b) ==
    LET flat == Flatten(m)
    IN  IF Len(flat) # a * b THEN Raised("RuntimeError")
        ELSE Tensor(<<a, 1, b>>,
                    [i \in 1..a |-> [j \in 1..b |-> flat[(i - 1) * b + j]]])

\* torch.cat([x, y], dim=0) of two (a, 1, b) tensors
Cat0(x, y) ==
    IF x.shape[3] # y.shape[3] THEN Raised("RuntimeError")
    ELSE Tensor(<<x.shape[1] + y.shape[1], 1, x.shape[3]>>, x.data \o y.data)

\* torch.clamp(x, lo, hi) = min(max(x, lo), hi): hi wins when lo > hi.
clamp(x, lo, hi) == Min(Max(x, lo), hi)

---------------------------------------------------------------------------
(* __init__ *)

\* 100 * np.hamming(M)[n], n counted from 0
hamming(M, n) ==
    IF M = 1 THEN 100
    ELSE RDiv(54000 - 46 * CosFx(4 * n, 4 * (M - 1)), 1000)

\* hz of _initialize_filters: n_filters // 2 + 1 points, linear in mel
MelHz(s) ==
    LET low_hz  == 30
        high_hz == s.sample_rate \div 2 - (s.min_low_hz + s.min_band_hz)
        num     == s.n_filters \div 2 + 1
        mel     == linspace(to_mel(low_hz), to_mel(high_hz), num)
    IN  [i \in 1..num |-> to_hz(mel[i])]

\* np.diff(hz)
diff(hz) == [i \in 1..(Len(hz) - 1) |-> hz[i + 1] - hz[i]]

\* hz[:-1]
DropLast(hz) == SubSeq(hz, 1, Len(hz) - 1)

\* Mutant: low_hz_ takes hz[1:] instead of hz[:-1].
_initialize_filters_shifted(s) ==
    LET hz == MelHz(s)
    IN  [s EXCEPT !.low_hz_ = Tail(hz), !.band_hz_ = diff(hz)]

_initialize_filters(s) ==
    LET hz == MelHz(s)
    IN  [s EXCEPT !.low_hz_ = DropLast(hz), !.band_hz_ = diff(hz)]

Unbuilt ==
    [n_filters |-> 0, kernel_size |-> 0, stride |-> 0, sample_rate |-> 0,
     min_low_hz |-> 0, min_band_hz |-> 0, cutoff |-> 0,
     low_hz_ |-> <<>>, band_hz_ |-> <<>>, window_ |-> <<>>, n_ |-> <<>>]

\* Mutant: an even kernel_size is kept as given.
SincParamFB_asgiven(a) ==
    LET s0 == [Unbuilt EXCEPT !.n_filters = a.n_filters, !.kernel_size = a.kernel_size,
                              !.stride = a.stride, !.sample_rate = a.sample_rate,
                              !.min_low_hz = a.min_low_hz,
                              !.min_band_hz = a.min_band_hz,
                              !.cutoff = a.kernel_size \div 2]
        s1 == _initialize_filters(s0)
    IN  [s1 EXCEPT !.window_ = [k \in 1..s1.cutoff |-> hamming(s1.kernel_size, k - 1)],
                   !.n_ = [k \in 1..s1.cutoff |-> k - 1 - s1.cutoff]]

\* The instance __init__ builds.  n_ holds the sample index t of each entry
\* 2*pi*t/sample_rate, window_ the half Hamming window times 100.
SincParamFB(a) ==
    LET ks == IF a.kernel_size % 2 = 0 THEN a.kernel_size + 1 ELSE a.kernel_size
        s0 == [Unbuilt EXCEPT !.n_filters = a.n_filters, !.kernel_size = ks,
                              !.stride = a.stride, !.sample_rate = a.sample_rate,
                              !.min_low_hz = a.min_low_hz,
                              !.min_band_hz = a.min_band_hz,
                              !.cutoff = ks \div 2]
        s1 == _initialize_filters(s0)
    IN  [s1 EXCEPT !.window_ = [k \in 1..s1.cutoff |-> hamming(s1.kernel_size, k - 1)],
                   !.n_ = [k \in 1..s1.cutoff |-> k - 1 - s1.cutoff]]

NoArgs ==
    [n_filters |-> 0, kernel_size |-> 0, stride |-> 0, sample_rate |-> 0,
     min_low_hz |-> 0, min_band_hz |-> 0]

NoFrame == [low |-> <<>>, high |-> <<>>, types |-> <<>>]

---------------------------------------------------------------------------
(* filters and make_filters *)

\* One row of bp_left for the band [lo, hi]: the difference of sines (cos
\* type) or cosines (sin type), over n_/2 = pi*t/sample_rate with pi = 355/113,
\* times the window.  Scale FixOne.
bp_left(s, lo, hi, type) ==
    LET full == 4 * s.sample_rate
        num(k) == IF type = "cos"
                  THEN SinFx(4 * hi * s.n_[k], full) - SinFx(4 * lo * s.n_[k], full)
                  ELSE CosFx(4 * lo * s.n_[k], full) - CosFx(4 * hi * s.n_[k], full)
    IN  [k \in 1..Len(s.n_) |->
            TDiv(num(k) * s.sample_rate * 113, 355 * s.n_[k]) * s.window_[k]]

\* band_pass of make_filters before the final view, for type cos or sin:
\* concat(bp_left, bp_center, bp_right) / (2 * band), row by row.
band_pass(s, low, high, type) ==
    LET rows == 1..Len(low)
        band == [i \in rows |-> high[i] - low[i]]
        left == [i \in rows |-> bp_left(s, low[i], high[i], type)]
        bp_center == [i \in rows |->
                        IF type = "cos" THEN <<2 * band[i] * FixOne>> ELSE <<0>>]
        flipped == [i \in rows |-> Flip(left[i])]
        bp_right == [i \in rows |->
                        IF type = "cos" THEN flipped[i]
                        ELSE [k \in 1..Len(flipped[i]) |-> -flipped[i][k]]]
        cat == [i \in rows |-> left[i] \o bp_center[i] \o bp_right[i]]
    IN  [i \in rows |-> [k \in 1..Len(cat[i]) |-> FDiv(cat[i][k], 2 * band[i])]]

\* Mutant: every tag but cos is taken for sin, nothing is raised.
make_filters_lenient(s, low, high, type) ==
    View(band_pass(s, low, high, IF type = "cos" THEN "cos" ELSE "sin"),
         s.n_filters \div 2, s.kernel_size)

make_filters(s, low, high, type) ==
    IF type \notin {"cos", "sin"} THEN Raised("ValueError")
    ELSE View(band_pass(s, low, high, type), s.n_filters \div 2, s.kernel_size)

\* low of filters
EffLow(s) == [i \in 1..Len(s.low_hz_) |-> s.min_low_hz + Abs(s.low_hz_[i])]

\* Mutant: high is not clamped.
EffHigh_unclamped(s) ==
    [i \in 1..Len(s.low_hz_) |-> EffLow(s)[i] + s.min_band_hz + Abs(s.band_hz_[i])]

\* Mutant: min_band_hz is not added to high.
EffHigh_nofloor(s) ==
    [i \in 1..Len(s.low_hz_) |->
        clamp(EffLow(s)[i] + Abs(s.band_hz_[i]), s.min_low_hz, s.sample_rate \div 2)]

\* high of filters; sample_rate / 2 is exact for the even rates of SampleRates
EffHigh(s) ==
    [i \in 1..Len(s.low_hz_) |->
        clamp(EffLow(s)[i] + s.min_band_hz + Abs(s.band_hz_[i]),
              s.min_low_hz, s.sample_rate \div 2)]

\* Mutant: the sin kernels are not appended.
filters_cosonly(s) ==
    [ret |-> make_filters(s, EffLow(s), EffHigh(s), "cos"), types |-> <<"cos", "sin">>]

\* The value of the filters property, with the tags make_filters was called with.
filters(s) ==
    LET low  == EffLow(s)
        high == EffHigh(s)
        cos_filters == make_filters(s, low, high, "cos")
        sin_filters == make_filters(s, low, high, "sin")
    IN  IF cos_filters.kind # "tensor"
        THEN [ret |-> cos_filters, types |-> <<"cos">>]
        ELSE IF sin_filters.kind # "tensor"
        THEN [ret |-> sin_filters, types |-> <<"cos", "sin">>]
        ELSE [ret |-> Cat0(cos_filters, sin_filters), types |-> <<"cos", "sin">>]

---------------------------------------------------------------------------
(* Operations *)

NoPrev == [kind |-> "off", low_hz_ |-> <<>>, band_hz_ |-> <<>>, ret |-> NoRet]
EmptyPrev == [NoPrev EXCEPT !.kind = "empty"]

\* prev after a filters call: untouched, or this call remembered.
Remember(s, r) ==
    IF prev.kind = "off" THEN {prev}
    ELSE {prev, [kind |-> "full", low_hz_ |-> s.low_hz_, band_hz_ |-> s.band_hz_,
                 ret |-> r]}

Init ==
    /\ args = NoArgs
    /\ self = Unbuilt
    /\ op = "none"
    /\ frame = NoFrame
    /\ ret = NoRet
    /\ prev = NoPrev

\* SincParamFB(n_filters, kernel_size, stride, sample_rate=.., min_low_hz=..,
\* min_band_hz=..)
ConstructWith(nfs) ==
    /\ op = "none"
    /\ \E nf \in nfs, ks \in KernelSizes, st \in Strides, sr \in SampleRates,
          ml \in MinLowHzs, mb \in MinBandHzs :
          LET a == [n_filters |-> nf, kernel_size |-> ks, stride |-> st,
                    sample_rate |-> sr, min_low_hz |-> ml, min_band_hz |-> mb]
          IN  /\ args' = a
              /\ self' = SincParamFB(a)
    /\ op' = "construct"
    /\ UNCHANGED <<frame, ret, prev>>

Construct == ConstructWith(NFilters)

\* The optimizer writes one entry of the parameter low_hz_.
SetLowHz ==
    /\ op # "none"
    /\ \E i \in 1..Len(self.low_hz_), v \in RawValues :
          self' = [self EXCEPT !.low_hz_[i] = v]
    /\ op' = "update"
    /\ frame' = NoFrame
    /\ ret' = NoRet
    /\ UNCHANGED <<args, prev>>

\* The optimizer writes one entry of the parameter band_hz_.
SetBandHz ==
    /\ op # "none"
    /\ \E i \in 1..Len(self.band_hz_), v \in RawValues :
          self' = [self EXCEPT !.band_hz_[i] = v]
    /\ op' = "update"
    /\ frame' = NoFrame
    /\ ret' = NoRet
    /\ UNCHANGED <<args, prev>>

\* Mutant: the effective frequencies are cached by the first call and reused.
Filters_stale ==
    /\ op # "none"
    /\ LET c == IF prev.kind = "full"
                THEN [self EXCEPT !.low_hz_ = prev.low_hz_, !.band_hz_ = prev.band_hz_]
                ELSE self
           f == filters(c)
       IN  /\ ret' = f.ret
           /\ frame' = [low |-> EffLow(c), high |-> EffHigh(c), types |-> f.types]
           /\ prev' \in Remember(self, f.ret)
    /\ op' = "filters"
    /\ UNCHANGED <<args, self>>

\* Mutant: the absolute value is taken in place (abs_), overwriting low_hz_.
Filters_inplace ==
    /\ op # "none"
    /\ LET f == filters(self)
       IN  /\ ret' = f.ret
           /\ frame' = [low |-> EffLow(self), high |-> EffHigh(self), types |-> f.types]
           /\ prev' \in Remember(self, f.ret)
    /\ op' = "filters"
    /\ self' = [self EXCEPT !.low_hz_ = [i \in 1..Len(self.low_hz_) |-> Abs(self.low_hz_[i])]]
    /\ UNCHANGED args

\* A read of the filters property.
Filters ==
    /\ op # "none"
    /\ LET f == filters(self)
       IN  /\ ret' = f.ret
           /\ frame' = [low |-> EffLow(self), high |-> EffHigh(self), types |-> f.types]
           /\ prev' \in Remember(self, f.ret)
    /\ op' = "filters"
    /\ UNCHANGED <<args, self>>

\* A direct call of make_filters with the effective frequencies and any tag.
MakeFilters ==
    /\ op # "none"
    /\ \E type \in FilterTypes :
          /\ ret' = make_filters(self, EffLow(self), EffHigh(self), type)
          /\ frame' = [low |-> EffLow(self), high |-> EffHigh(self), types |-> <<type>>]
    /\ op' = "make_filters"
    /\ UNCHANGED <<args, self, prev>>

Next == Construct \/ SetLowHz \/ SetBandHz \/ Filters \/ MakeFilters

Spec == Init /\ [][Next]_vars

\* The same instance with one filters call remembered for comparison.
InitDet ==
    /\ args = NoArgs
    /\ self = Unbuilt
    /\ op = "none"
    /\ frame = NoFrame
    /\ ret = NoRet
    /\ prev = EmptyPrev

ConstructDet == ConstructWith(NFiltersDet)

NextDet == ConstructDet \/ SetLowHz \/ SetBandHz \/ Filters

SpecDet == InitDet /\ [][NextDet]_vars

---------------------------------------------------------------------------
(* Properties *)

Pairs == self.n_filters \div 2
Nyquist == self.sample_rate \div 2
Built == op # "none"
Called == op = "filters"

\* The unclamped high of filter i at the last filters call.
Unclamped(i) == frame.low[i] + self.min_band_hz + Abs(self.band_hz_[i])

\* C1: for even n_filters and any kernel_size and parameter values, filters
\* returns a tensor of shape (n_filters, 1, K), K the stored kernel_size (the
\* passed value if odd, the passed value + 1 if even), every kernel of length
\* cutoff + 1 + cutoff = K.
BankShape ==
    (Called /\ args.n_filters % 2 = 0) =>
        /\ ret.kind = "tensor"
        /\ ret.shape = <<args.n_filters, 1, self.kernel_size>>
        /\ self.kernel_size = IF args.kernel_size % 2 = 0 THEN args.kernel_size + 1
                              ELSE args.kernel_size
        /\ Len(ret.data) = 2 * Pairs
        /\ \A j \in 1..Len(ret.data) :
              Len(ret.data[j]) = self.cutoff + 1 + self.cutoff
        /\ self.cutoff + 1 + self.cutoff = self.kernel_size

\* An even kernel_size was passed, a parameter was set negative, and the
\* four-kernel bank was returned.
BankShapeWitness ==
    /\ Called
    /\ args.n_filters = 4
    /\ args.kernel_size = 4
    /\ self.low_hz_[2] < 0
    /\ ret.shape = <<4, 1, 5>>

\* C2: after construction the stored kernel_size is k+1 for an even passed k
\* and k for an odd one, hence odd, and cutoff = (kernel_size - 1) / 2 of the
\* stored kernel_size.
KernelSizeOdd ==
    Built =>
        /\ (args.kernel_size % 2 = 0 => self.kernel_size = args.kernel_size + 1)
        /\ (args.kernel_size % 2 = 1 => self.kernel_size = args.kernel_size)
        /\ self.kernel_size % 2 = 1
        /\ 2 * self.cutoff = self.kernel_size - 1

\* Constructed from an even kernel_size.
KernelSizeOddWitness ==
    /\ op = "construct"
    /\ args.kernel_size = 4
    /\ self.kernel_size = 5
    /\ self.cutoff = 2

\* C3 as stated: at every filters call, for every filter i,
\* low[i] = min_low_hz + |low_hz_[i]| >= min_low_hz, high[i] <= sample_rate/2
\* and high[i] >= min_low_hz.
EffectiveBoundsAsStated ==
    Called =>
        \A i \in 1..Pairs :
            /\ frame.low[i] = self.min_low_hz + Abs(self.low_hz_[i])
            /\ frame.low[i] >= self.min_low_hz
            /\ frame.high[i] <= Nyquist
            /\ frame.high[i] >= self.min_low_hz

\* C3 amended: low[i] = min_low_hz + |low_hz_[i]| >= min_low_hz and
\* high[i] <= sample_rate/2 always; high[i] >= min_low_hz when
\* min_low_hz <= sample_rate/2, and high[i] = sample_rate/2 < min_low_hz otherwise.
EffectiveBounds ==
    Called =>
        \A i \in 1..Pairs :
            /\ frame.low[i] = self.min_low_hz + Abs(self.low_hz_[i])
            /\ frame.low[i] >= self.min_low_hz
            /\ frame.high[i] <= Nyquist
            /\ (self.min_low_hz <= Nyquist => frame.high[i] >= self.min_low_hz)
            /\ (self.min_low_hz > Nyquist => frame.high[i] = Nyquist)

\* A call with a negative raw low_hz_ and a high that the clamp pulled down to
\* sample_rate/2, in a configuration with min_low_hz <= sample_rate/2.
EffectiveBoundsWitness ==
    /\ Called
    /\ self.min_low_hz <= Nyquist
    /\ \E i \in 1..Pairs :
          /\ self.low_hz_[i] < 0
          /\ Unclamped(i) > Nyquist
          /\ frame.high[i] = Nyquist

\* Kernel j of the returned bank, 1-based.
Kernel(j) == ret.data[j]

\* C4 as stated: in every returned bank the kernels 1..n_filters/2 are
\* mirror-symmetric about the centre, the kernels n_filters/2+1..n_filters
\* are antisymmetric with a zero centre sample, for every parameter value.
KernelSymmetry ==
    (Called /\ ret.kind = "tensor") =>
        \A j \in 1..Pairs :
            /\ \A i \in 0..(self.cutoff - 1) :
                  FEq(Kernel(j)[self.cutoff - i], Kernel(j)[self.cutoff + 2 + i])
            /\ \A i \in 0..(self.cutoff - 1) :
                  FEq(Kernel(Pairs + j)[self.cutoff + 2 + i],
                      FNeg(Kernel(Pairs + j)[self.cutoff - i]))
            /\ FEq(Kernel(Pairs + j)[self.cutoff + 1], Fin(0))

\* The symmetry of the kernels wherever no filter has a zero band: an
\* invariant of Spec, so the zero divisor is the only way KernelSymmetry fails.
KernelSymmetryNonzeroBand ==
    (Called => \A i \in 1..Pairs : frame.high[i] # frame.low[i]) => KernelSymmetry

Fixed(s) == [s EXCEPT !.low_hz_ = <<>>, !.band_hz_ = <<>>]

\* C6: a filters (or make_filters) call leaves the parameters, the
\* configuration and the buffers unchanged, and a parameter update changes
\* only low_hz_ or band_hz_: configuration and buffers keep their
\* construction-time values.
SideEffectFree ==
    [][/\ op' \in {"filters", "make_filters"} => self' = self
       /\ Built => (Fixed(self') = Fixed(self) /\ args' = args)
       /\ op' = "construct" => Fixed(self') = Fixed(SincParamFB(args'))]_vars

\* A call made after an update, with the buffers still as constructed.
SideEffectFreeWitness ==
    /\ Called
    /\ self.low_hz_[1] < 0
    /\ self.cutoff = 2
    /\ Fixed(self) = Fixed(SincParamFB(args))

\* C7: the unclamped high exceeds low by at least min_band_hz; when the
\* unclamped high lies in [min_low_hz, sample_rate/2] the band high - low is
\* >= min_band_hz; the band is below min_band_hz only when the clamp to
\* sample_rate/2 pulled high down.
BandFloor ==
    Called =>
        \A i \in 1..Pairs :
            /\ Unclamped(i) - frame.low[i] >= self.min_band_hz
            /\ (self.min_low_hz <= Unclamped(i) /\ Unclamped(i) <= Nyquist)
                  => frame.high[i] - frame.low[i] >= self.min_band_hz
            /\ frame.high[i] - frame.low[i] < self.min_band_hz
                  => (frame.high[i] = Nyquist /\ Unclamped(i) > Nyquist)

\* One filter with its band kept by the floor (raw band_hz_ zero, high
\* unclamped) and one whose band the clamp cut below min_band_hz.
BandFloorWitness ==
    /\ Called
    /\ Pairs = 2
    /\ self.band_hz_[1] = 0
    /\ Unclamped(1) <= Nyquist
    /\ frame.high[1] - frame.low[1] = self.min_band_hz
    /\ frame.high[2] - frame.low[2] < self.min_band_hz

\* C8: make_filters accepts the tags cos and sin and answers any other tag
\* with a ValueError, returning no kernel and changing no field; filters calls
\* it with cos and then sin and never ends in that ValueError.
TypeTags ==
    [][/\ op' = "make_filters" =>
             /\ frame'.types[1] \in {"cos", "sin"} => ret'.kind = "tensor"
             /\ frame'.types[1] \notin {"cos", "sin"} =>
                   (ret' = Raised("ValueError") /\ self' = self)
       /\ op' = "filters" =>
             (frame'.types = <<"cos", "sin">> /\ ret'.kind = "tensor")]_vars

\* make_filters was called with the tag tan and raised.
TypeTagsWitness ==
    /\ op = "make_filters"
    /\ frame.types = <<"tan">>
    /\ ret.kind = "ValueError"

RECURSIVE SumSeq(_)
SumSeq(q) == IF q = <<>> THEN 0 ELSE Head(q) + SumSeq(Tail(q))

\* C9: construction takes n_filters/2 + 1 points hz and sets low_hz_ and
\* band_hz_ to n_filters/2 entries each, low_hz_[i] = hz[i] and
\* band_hz_[i] = hz[i+1] - hz[i]; so low_hz_[i] + band_hz_[i] = low_hz_[i+1],
\* the last point is low_hz_[last] + band_hz_[last], and the band_hz_ sum to
\* hz[last] - hz[first].
MelInit ==
    op = "construct" =>
        LET hz == MelHz(self)
        IN  /\ Len(hz) = Pairs + 1
            /\ Len(self.low_hz_) = Pairs
            /\ Len(self.band_hz_) = Pairs
            /\ \A i \in 1..Pairs :
                  /\ self.low_hz_[i] = hz[i]
                  /\ self.band_hz_[i] = hz[i + 1] - hz[i]
            /\ \A i \in 1..(Pairs - 1) :
                  self.low_hz_[i] + self.band_hz_[i] = self.low_hz_[i + 1]
            /\ self.low_hz_[Pairs] + self.band_hz_[Pairs] = hz[Pairs + 1]
            /\ SumSeq(self.band_hz_) = hz[Pairs + 1] - hz[1]

\* Two pairs initialised on rising frequencies, from 30 Hz up.
MelInitWitness ==
    /\ op = "construct"
    /\ Pairs = 2
    /\ self.low_hz_[1] = 30
    /\ self.band_hz_[1] > 0
    /\ self.band_hz_[2] > 0

\* C10 as stated: at every filters call every filter has high > low, so the
\* divisor 2 * band is positive and the centre sample of every cos kernel is 1.
PositiveBand ==
    (Called /\ ret.kind = "tensor") =>
        \A i \in 1..Pairs :
            /\ frame.high[i] > frame.low[i]
            /\ Kernel(i)[self.cutoff + 1] = Fin(FixOne)

====
